---- MODULE Spec2Model ----
(***************************************************************************)
(* Model of "CAKE Tool/Create-TVShow-Excel.py": a script that holds a      *)
(* mapping  show name -> {episodes, cast}  and writes one worksheet per    *)
(* show into a workbook, saves it as TV_Shows_DummyData.xlsx and prints a  *)
(* confirmation.                                                           *)
(*                                                                         *)
(* The dataset is a parameter of the model: Init draws the number of       *)
(* shows and the length of each list from bounded sets (the script's own   *)
(* comments invite extending the lists), InitNames draws the show names.   *)
(* The pandas and openpyxl calls the script makes are modelled by what     *)
(* those calls do to the values the script passes them.                    *)
(***************************************************************************)
EXTENDS Integers, Sequences, FiniteSets

(* ------------------------------ bounds --------------------------------- *)
MaxShows == 2
MaxEps == 2
MaxCast == 2

(* ------------------------------ values --------------------------------- *)
\* A cell value.  t is its Python type ("str", "int", "float", "nan");
\* a literal string of the script carries its text in s; a value of the
\* dataset is named by the show (i), the record (k) and the field (s).
TextCell(s) == [t |-> "str", s |-> s, i |-> 0, k |-> 0]

NaN == [t |-> "nan", s |-> "", i |-> 0, k |-> 0]

DataCell(type, field, i, k) == [t |-> type, s |-> field, i |-> i, k |-> k]

\* Python's == on values: 1 == 1.0, so int and float compare by value.
PyEq(a, b) ==
    /\ a.s = b.s /\ a.i = b.i /\ a.k = b.k
    /\ \/ a.t = b.t
       \/ {a.t, b.t} = {"int", "float"}

EpisodeFields ==
    << "Season", "Episode", "Title", "Director", "Synopsis",
       "OTT Platform", "Air Date", "Runtime", "Rating" >>

EpisodeTypes ==
    << "int", "int", "str", "str", "str", "str", "str", "str", "float" >>

CastFields == << "Actor Name", "Character", "Nationality", "Awards" >>

CastTypes == << "str", "str", "str", "str" >>

\* One dict of the literal: an ordered sequence of key/value pairs.
EpisodeRecord(i, k) ==
    [j \in 1..Len(EpisodeFields) |->
        [key |-> EpisodeFields[j],
         val |-> DataCell(EpisodeTypes[j], EpisodeFields[j], i, k)]]

CastRecord(i, k) ==
    [j \in 1..Len(CastFields) |->
        [key |-> CastFields[j],
         val |-> DataCell(CastTypes[j], CastFields[j], i, k)]]

\* shows[name] = {"episodes": [...], "cast": [...]}, kept in insertion order.
ShowEntry(name, i, n, m) ==
    [name |-> name,
     episodes |-> [k \in 1..n |-> EpisodeRecord(i, k)],
     cast |-> [k \in 1..m |-> CastRecord(i, k)]]

(* --------------------------- show names -------------------------------- *)
LiteralNames == << "Friends", "Breaking Bad", "Prison Break", "Lost" >>

LongName == "It's Always Sunny in Philadelphia"

\* Names the name-varying specification draws from: three spellings that
\* differ only in case, one with a character a sheet title may not hold,
\* one longer than a sheet title may be.
ShowNames == {"Friends", "FRIENDS", "friends", "Lost", "A/B", LongName}

\* len(name)
NameLen(name) ==
    CASE name \in {"Friends", "FRIENDS", "friends"} -> 7
      [] name = "Breaking Bad" -> 12
      [] name = "Prison Break" -> 12
      [] name = "Lost" -> 4
      [] name = "A/B" -> 3
      [] name = "Sheet" -> 5
      [] name = LongName -> 33

\* name.lower()
NameLower(name) ==
    CASE name \in {"Friends", "FRIENDS", "friends"} -> "friends"
      [] name = "Breaking Bad" -> "breaking bad"
      [] name = "Prison Break" -> "prison break"
      [] name = "Lost" -> "lost"
      [] name = "A/B" -> "a/b"
      [] name = "Sheet" -> "sheet"
      [] name = LongName -> "it's always sunny in philadelphia"

\* INVALID_TITLE_REGEX.search(name): one of \ * ? : / [ ] occurs in it.
HasInvalidChar(name) == name = "A/B"

(* ------------------------------ pandas --------------------------------- *)
\* A column label: an integer of a RangeIndex, or a string.
IntLabel(n) == [int |-> TRUE, n |-> n, s |-> ""]

StrLabel(s) == [int |-> FALSE, n |-> 0, s |-> s]

\* rec[key] of a dict.
DictGet(rec, key) == rec[CHOOSE j \in 1..Len(rec) : rec[j].key = key].val

\* pd.DataFrame(list of dicts): the columns are the keys of the records in
\* order of first appearance (the first record's keys, the records being
\* homogeneous); no record, no column.
DataFrame(data) ==
    LET cols == IF data = << >> THEN << >>
                ELSE [j \in 1..Len(data[1]) |-> StrLabel(data[1][j].key)]
    IN [columns |-> cols,
        rows |-> [k \in 1..Len(data) |->
                    [j \in 1..Len(cols) |-> DictGet(data[k], cols[j].s)]]]

\* pd.DataFrame([df.columns]): one row holding the labels as values, under
\* the default integer column labels 0, 1, 2, ...
ColumnsFrame(cols) ==
    [columns |-> [j \in 1..Len(cols) |-> IntLabel(j - 1)],
     rows |-> << [j \in 1..Len(cols) |-> TextCell(cols[j].s)] >>]

\* The position of a label among the columns of a frame, 0 when absent.
ColumnIndex(cols, label) ==
    IF \E p \in 1..Len(cols) : cols[p] = label
    THEN CHOOSE p \in 1..Len(cols) : cols[p] = label
    ELSE 0

\* The rows of a frame laid out under other columns; a column the frame
\* lacks is filled with NaN.
Reindex(df, cols) ==
    [k \in 1..Len(df.rows) |->
        [j \in 1..Len(cols) |->
            IF ColumnIndex(df.columns, cols[j]) = 0 THEN NaN
            ELSE df.rows[k][ColumnIndex(df.columns, cols[j])]]]

\* F applied to the value of v, v being evaluated once.
Bind(v, F(_)) == CHOOSE r \in { F(x) : x \in {v} } : TRUE

\* A numeric column that received a NaN becomes float64: its ints turn
\* into floats.  A column holding strings stays as it is.
Upcast(frame) ==
    Bind(frame, LAMBDA rows :
        LET holed(j) == \E k \in 1..Len(rows) : rows[k][j].t = "nan"
            numeric(j) == \A k \in 1..Len(rows) :
                             rows[k][j].t \in {"int", "float", "nan"}
        IN [k \in 1..Len(rows) |->
              [j \in 1..Len(rows[k]) |->
                  IF holed(j) /\ numeric(j) /\ rows[k][j].t = "int"
                  THEN [rows[k][j] EXCEPT !.t = "float"]
                  ELSE rows[k][j]]])

\* The column labels of a concat: the union, in order of appearance.
UnionColumns(a, b) ==
    a \o SelectSeq(b, LAMBDA c : ColumnIndex(a, c) = 0)

\* A concat that puts the second frame's rows first.
ConcatSwapped(a, b) ==
    Bind(UnionColumns(a.columns, b.columns), LAMBDA cols :
        [columns |-> cols,
         rows |-> Upcast(Reindex(b, cols) \o Reindex(a, cols))])

\* pd.concat([a, b]): the rows of a then the rows of b, under the union of
\* the column labels in order of appearance (join="outer", sort=False).
Concat(a, b) ==
    Bind(UnionColumns(a.columns, b.columns), LAMBDA cols :
        [columns |-> cols,
         rows |-> Upcast(Reindex(a, cols) \o Reindex(b, cols))])

\* The rows the script appends for one table: lines 73-74 and 79-80,
\* pd.concat([pd.DataFrame([df.columns]), df]).values
TableRows(data) ==
    Bind(DataFrame(data), LAMBDA df :
        Bind(ColumnsFrame(df.columns), LAMBDA head :
            Concat(head, df).rows))

(* ----------------------------- openpyxl -------------------------------- *)
\* A sheet title: a name, followed by the decimal number count when
\* count > 0 (the suffix avoid_duplicate_name appends).
Title(text) == [text |-> text, count |-> 0]

Digits(n) == IF n < 10 THEN 1 ELSE 2

TitleLen(title) ==
    NameLen(title.text) + (IF title.count = 0 THEN 0 ELSE Digits(title.count))

Max(S) == CHOOSE x \in S : \A y \in S : y <= x

\* openpyxl's avoid_duplicate_name(names, value): when value equals an
\* existing title ignoring case, it gets the next free number appended.
AvoidDuplicateName(titles, name) ==
    LET match == \E p \in 1..Len(titles) :
                    /\ titles[p].count = 0
                    /\ NameLower(titles[p].text) = NameLower(name)
        counts == {titles[p].count : p \in
                     {q \in 1..Len(titles) :
                        /\ NameLower(titles[q].text) = NameLower(name)
                        /\ titles[q].count > 0}}
        highest == IF counts = {} THEN 0 ELSE Max(counts)
    IN IF match THEN [text |-> name, count |-> highest + 1]
       ELSE Title(name)

\* Workbook(): a workbook holding the default sheet "Sheet".
NewBook == << [title |-> Title("Sheet"), rows |-> << >>] >>

\* A removal that leaves the default sheet in place.
RemoveNothing(book) == book

\* wb.remove(wb.active): the active sheet is the first one.
RemoveActive(book) == Tail(book)

\* ws.append(row) on the last sheet created: the row goes below the rows
\* appended so far; an empty row only advances the current row.
WsAppend(book, row) ==
    [book EXCEPT ![Len(book)].rows = Append(@, row)]

\* for r in rows: ws.append(list(r))
WsAppendAll(book, rows) ==
    [book EXCEPT ![Len(book)].rows = @ \o rows]

\* What a saved sheet holds: its cells.  Rows without cells at the end of
\* the sheet leave no trace in the file.
RECURSIVE TrimRows(_)
TrimRows(rows) ==
    IF rows # << >> /\ rows[Len(rows)] = << >>
    THEN TrimRows(SubSeq(rows, 1, Len(rows) - 1))
    ELSE rows

SavedSheet(ws) == [title |-> ws.title, rows |-> TrimRows(ws.rows)]

\* A save that adds the sheets to those of the file already there.
SavedBookMerged(book, old) ==
    [state |-> "workbook",
     sheets |-> old.sheets \o [p \in 1..Len(book) |-> SavedSheet(book[p])]]

\* The file wb.save writes over the old one: the archive is opened for
\* writing, which discards what was there, and receives the workbook's sheets.
SavedBook(book, old) ==
    [state |-> "workbook",
     sheets |-> [p \in 1..Len(book) |-> SavedSheet(book[p])]]

NoFile == [state |-> "absent", sheets |-> << >>]

CorruptFile == [state |-> "corrupt", sheets |-> << >>]

\* A workbook somebody else left at the output path.
OtherFile ==
    [state |-> "workbook",
     sheets |-> << [title |-> Title("Old"),
                    rows |-> << << TextCell("old") >> >>] >>]

Confirmation ==
    "Excel file 'TV_Shows_DummyData.xlsx' created with all worksheets and dummy data."

(* ------------------------------ state ---------------------------------- *)
VARIABLES
    shows,   \* the dataset: sequence of show entries, in insertion order
    pc,      \* the statement the script is at
    idx,     \* how many shows the for loop has taken
    wb,      \* the workbook: sequence of sheets
    file,    \* what is at TV_Shows_DummyData.xlsx
    out,     \* lines printed by the running process
    run      \* 1 in the first run of the script, 2 in the second

vars == << shows, pc, idx, wb, file, out, run >>

\* The datasets of the layout specification: the first n literal names,
\* every list of every length up to the bounds.
Datasets ==
    UNION { { [i \in 1..n |->
                 ShowEntry(LiteralNames[i], i, shape[i][1], shape[i][2])] :
              shape \in [1..n -> (0..MaxEps) \X (0..MaxCast)] } :
            n \in 0..MaxShows }

\* The datasets of the name specification: distinct names (the keys of a
\* dict) in any order, every show shaped like the literal's shortest.
NamedDatasets ==
    UNION { { [i \in 1..n |-> ShowEntry(names[i], i, 1, 1)] :
              names \in { f \in [1..n -> ShowNames] :
                            \A a, b \in 1..n : a # b => f[a] # f[b] } } :
            n \in 0..MaxShows }

Start(data) ==
    /\ shows = data
    /\ pc = "new"
    /\ idx = 0
    /\ wb = << >>
    /\ file \in {NoFile, OtherFile}
    /\ out = << >>
    /\ run = 1

Init == \E data \in Datasets : Start(data)

InitNames == \E data \in NamedDatasets : Start(data)

\* A loop that ends after its first pass.
LoopNextOnce(i) == IF i < 1 /\ i < Len(shows) THEN "create" ELSE "save"

\* Where the for statement of line 69 goes next.
LoopNext(i) == IF i < Len(shows) THEN "create" ELSE "save"

(* ----------------------------- actions --------------------------------- *)
\* line 66: wb = Workbook()
NewWorkbook ==
    /\ pc = "new"
    /\ wb' = NewBook
    /\ pc' = "remove"
    /\ UNCHANGED << shows, idx, file, out, run >>

\* line 67: wb.remove(wb.active)
RemoveDefault ==
    /\ pc = "remove"
    /\ wb' = RemoveActive(wb)
    /\ pc' = LoopNext(idx)
    /\ UNCHANGED << shows, idx, file, out, run >>

\* lines 69-70: the loop takes the next show; ws = wb.create_sheet(title=show).
\* A title holding an invalid character raises ValueError, which nothing
\* catches; a title longer than 31 characters only draws a warning.
CreateSheet ==
    /\ pc = "create"
    /\ idx' = idx + 1
    /\ LET show == shows[idx + 1].name
           titles == [p \in 1..Len(wb) |-> wb[p].title]
       IN IF HasInvalidChar(show)
          THEN /\ pc' = "error"
               /\ wb' = wb
          ELSE /\ pc' = "ep_label"
               /\ wb' = Append(wb, [title |-> AvoidDuplicateName(titles, show),
                                    rows |-> << >>])
    /\ UNCHANGED << shows, file, out, run >>


\* line 72: ws.append(["Episodes"])
EpisodesLabel == << TextCell("Episodes") >>

AppendEpisodesLabel ==
    /\ pc = "ep_label"
    /\ wb' = WsAppend(wb, EpisodesLabel)
    /\ pc' = "ep_table"
    /\ UNCHANGED << shows, idx, file, out, run >>

\* lines 73-75: the header row and one row per episode
WriteEpisodes ==
    /\ pc = "ep_table"
    /\ wb' = WsAppendAll(wb, TableRows(shows[idx].episodes))
    /\ pc' = "blank"
    /\ UNCHANGED << shows, idx, file, out, run >>

\* A separator row that holds an empty string.
BlankRowText == << TextCell("") >>

\* line 76: ws.append([])
BlankRow == << >>

AppendBlank ==
    /\ pc = "blank"
    /\ wb' = WsAppend(wb, BlankRow)
    /\ pc' = "cast_label"
    /\ UNCHANGED << shows, idx, file, out, run >>

\* line 78: ws.append(["Main Cast"])
CastLabel == << TextCell("Main Cast") >>

AppendCastLabel ==
    /\ pc = "cast_label"
    /\ wb' = WsAppend(wb, CastLabel)
    /\ pc' = "cast_table"
    /\ UNCHANGED << shows, idx, file, out, run >>

\* lines 79-81: the header row and one row per cast member; then the loop
\* goes on to the next show or ends
WriteCast ==
    /\ pc = "cast_table"
    /\ wb' = WsAppendAll(wb, TableRows(shows[idx].cast))
    /\ pc' = LoopNext(idx)
    /\ UNCHANGED << shows, idx, file, out, run >>

\* A save whose failure is swallowed: the script goes on to print.
SaveSwallowed ==
    /\ pc = "save"
    /\ \/ /\ wb # << >>
          /\ file' = SavedBook(wb, file)
       \/ file' \in {file, CorruptFile}
    /\ pc' = "print"
    /\ UNCHANGED << shows, idx, wb, out, run >>

\* line 84: wb.save("TV_Shows_DummyData.xlsx").  A workbook without a
\* sheet cannot be written (IndexError); any save can fail on the file
\* system.  A failure is not caught, and leaves the old file or, when the
\* archive was already opened for writing, a broken one.
Save ==
    /\ pc = "save"
    /\ \/ /\ wb # << >>
          /\ file' = SavedBook(wb, file)
          /\ pc' = "print"
       \/ /\ file' \in {file, CorruptFile}
          /\ pc' = "error"
    /\ UNCHANGED << shows, idx, wb, out, run >>

\* line 85: print(...)
PrintConfirmation ==
    /\ pc = "print"
    /\ out' = Append(out, Confirmation)
    /\ pc' = "done"
    /\ UNCHANGED << shows, idx, wb, file, run >>

\* After a completed run the script is started a second time, on the same
\* dataset, with the file the first run wrote.
Rerun ==
    /\ pc = "done"
    /\ run = 1
    /\ run' = 2
    /\ pc' = "new"
    /\ idx' = 0
    /\ wb' = << >>
    /\ out' = << >>
    /\ UNCHANGED << shows, file >>

\* The statements of one run.
Step ==
    \/ NewWorkbook
    \/ RemoveDefault
    \/ CreateSheet
    \/ AppendEpisodesLabel
    \/ WriteEpisodes
    \/ AppendBlank
    \/ AppendCastLabel
    \/ WriteCast
    \/ Save
    \/ PrintConfirmation

Next == Step \/ Rerun

Spec == Init /\ [][Next]_vars

NameSpec == InitNames /\ [][Next]_vars

\* The interpreter runs a started script statement by statement to its end.
FairSpec == NameSpec /\ WF_vars(Step)

(* ------------------------- reading a sheet ----------------------------- *)
\* The sheets the loop has created: sheet p belongs to show p.
ShowSheets == IF pc \in {"new", "remove"} THEN {} ELSE 1..Len(wb)

\* The sheet of show p is fully written once the loop has left it.
Complete(p) ==
    /\ p \in ShowSheets
    /\ \/ p < Len(wb)
       \/ pc \in {"create", "save", "print", "done", "error"}

NumEpisodes(p) == Len(shows[p].episodes)

NumCast(p) == Len(shows[p].cast)

\* The values of a record, in the order of its fields.
RecordValues(rec) == [j \in 1..Len(rec) |-> rec[j].val]

HeaderOf(fields) == [j \in 1..Len(fields) |-> TextCell(fields[j])]

\* A row holds exactly the given values in columns 1..Len(values).
RowIs(row, values) ==
    /\ Len(row) = Len(values)
    /\ \A j \in 1..Len(values) : PyEq(row[j], values[j])

\* The cells of a row that hold a value, left to right.
Filled(row) == SelectSeq(row, LAMBDA c : c.t # "nan")

\* Reading a table back: the row at position head gives the field names,
\* every following row up to the first empty row (or the end of the sheet)
\* is a record mapping the name in column j to the row's value in column j.
RECURSIVE TableEnd(_, _)
TableEnd(rows, from) ==
    IF from > Len(rows) \/ rows[from] = << >> THEN from - 1
    ELSE TableEnd(rows, from + 1)

ReadTable(rows, head) ==
    [k \in 1..(TableEnd(rows, head + 1) - head) |->
        [j \in 1..Len(rows[head]) |->
            [key |-> rows[head][j].s,
             val |-> IF j <= Len(rows[head + k]) THEN rows[head + k][j]
                     ELSE NaN]]]

\* The records read back equal the original ones, field by field, in order.
SameRecords(read, data) ==
    /\ Len(read) = Len(data)
    /\ \A k \in 1..Len(data) : \A j \in 1..Len(data[k]) :
          /\ \E q \in 1..Len(read[k]) : read[k][q].key = data[k][j].key
          /\ PyEq(DictGet(read[k], data[k][j].key), data[k][j].val)

(* ------------------------------ claims --------------------------------- *)
\* C1: for every show with records, the header row and every data row of a
\* block occupy the same columns: the Episodes header holds the 9 field
\* names in columns 1..9 and each episode row holds that episode's 9 values
\* in columns 1..9, likewise columns 1..4 for the Main Cast block, and no
\* header or data row has cells outside those columns.  (The header of an
\* empty list is claim C4.)
C1_AlignedColumns ==
    \A p \in ShowSheets : Complete(p) =>
        LET rows == wb[p].rows
            n == NumEpisodes(p)
            m == NumCast(p)
        IN /\ n >= 1 =>
                /\ RowIs(rows[2], HeaderOf(EpisodeFields))
                /\ \A k \in 1..n :
                      RowIs(rows[k + 2], RecordValues(shows[p].episodes[k]))
           /\ m >= 1 =>
                /\ RowIs(rows[n + 5], HeaderOf(CastFields))
                /\ \A k \in 1..m :
                      RowIs(rows[n + 5 + k], RecordValues(shows[p].cast[k]))

\* C3: round trip: after the export, for every show with non-empty episode
\* and cast lists, reading the saved sheet back (header row as field names,
\* following rows up to the blank row as records) yields the show's original
\* episode records and cast records, field by field and in order.
C3_RoundTrip ==
    pc = "done" =>
        \A p \in 1..Len(shows) :
            (NumEpisodes(p) >= 1 /\ NumCast(p) >= 1) =>
                LET rows == file.sheets[p].rows
                    castHead == TableEnd(rows, 3) + 3
                IN /\ SameRecords(ReadTable(rows, 2), shows[p].episodes)
                   /\ SameRecords(ReadTable(rows, castHead), shows[p].cast)

\* C4: if a show's episode list (or cast list) is empty, that block is
\* exactly the single-cell label row followed by a header row carrying the
\* block's field names (9 for Episodes, 4 for Main Cast), and no data rows.
C4_EmptyListHeader ==
    \A p \in ShowSheets : Complete(p) =>
        LET rows == wb[p].rows
            n == NumEpisodes(p)
        IN /\ n = 0 =>
                /\ rows[1] = EpisodesLabel
                /\ rows[2] = HeaderOf(EpisodeFields)
                /\ rows[3] = << >>
           /\ NumCast(p) = 0 =>
                /\ Len(rows) = n + 5
                /\ rows[n + 4] = CastLabel
                /\ rows[n + 5] = HeaderOf(CastFields)

\* C5: in every sheet, row 1 is exactly the single cell "Episodes"; the row
\* right after the last episode data row has no cell at all; and the row
\* after that blank row is exactly the single cell "Main Cast".  This holds
\* of the sheet while it is written, once those rows exist, and of the
\* saved file.
SeparatorAt(rows, n) ==
    /\ Len(rows) >= 1 => rows[1] = << TextCell("Episodes") >>
    /\ Len(rows) >= n + 3 => rows[n + 3] = << >>
    /\ Len(rows) >= n + 4 => rows[n + 4] = << TextCell("Main Cast") >>

C5_LabelsAndSeparator ==
    /\ \A p \in ShowSheets :
          /\ SeparatorAt(wb[p].rows, NumEpisodes(p))
          /\ Complete(p) => Len(wb[p].rows) >= NumEpisodes(p) + 4
    /\ pc = "done" =>
          \A p \in 1..Len(file.sheets) :
              /\ SeparatorAt(file.sheets[p].rows, NumEpisodes(p))
              /\ Len(file.sheets[p].rows) >= NumEpisodes(p) + 4

\* A finished export holding a sheet with episode and cast rows around
\* the separator.
C5_Witness ==
    /\ pc = "done"
    /\ \E p \in ShowSheets :
          /\ NumEpisodes(p) = 2 /\ NumCast(p) >= 1
          /\ wb[p].rows[5] = << >>
          /\ wb[p].rows[6] = CastLabel

\* C9: for every show with n >= 1 episodes and m >= 1 cast members the
\* sheet has exactly n + m + 5 rows: row 1 the Episodes label, row 2 the
\* episode header, row k+2 the k-th episode, row n+3 blank, row n+4 the
\* Main Cast label, row n+5 the cast header, row n+5+k the k-th cast
\* member.  No record is dropped, duplicated or reordered.  (A row is read
\* by the values it holds, left to right; their columns are claim C1.)
C9_RowLayout ==
    \A p \in ShowSheets :
        (Complete(p) /\ NumEpisodes(p) >= 1 /\ NumCast(p) >= 1) =>
            LET rows == wb[p].rows
                n == NumEpisodes(p)
                m == NumCast(p)
            IN /\ Len(rows) = n + m + 5
               /\ rows[1] = EpisodesLabel
               /\ Filled(rows[2]) = HeaderOf(EpisodeFields)
               /\ \A k \in 1..n :
                     RowIs(Filled(rows[k + 2]),
                           RecordValues(shows[p].episodes[k]))
               /\ rows[n + 3] = << >>
               /\ rows[n + 4] = CastLabel
               /\ Filled(rows[n + 5]) = HeaderOf(CastFields)
               /\ \A k \in 1..m :
                     RowIs(Filled(rows[n + 5 + k]),
                           RecordValues(shows[p].cast[k]))
               /\ pc = "done" => file.sheets[p].rows = rows

\* A finished export with a sheet of two episodes and two cast members,
\* the second episode in row 4 and the second cast member in row 9.
C9_Witness ==
    /\ pc = "done"
    /\ \E p \in ShowSheets :
          /\ NumEpisodes(p) = 2 /\ NumCast(p) = 2
          /\ Len(wb[p].rows) = 9
          /\ \E c \in 1..Len(wb[p].rows[4]) :
                wb[p].rows[4][c] = DataCell("str", "Title", p, 2)
          /\ \E c \in 1..Len(wb[p].rows[9]) :
                wb[p].rows[9][c] = DataCell("str", "Actor Name", p, 2)

\* C2 (as stated): after the export completes the workbook holds exactly
\* one sheet per show, each named exactly the show name, in the order of
\* the mapping, and no other sheet.
C2_ExactNames ==
    pc = "done" =>
        /\ Len(wb) = Len(shows)
        /\ \A p \in 1..Len(wb) : wb[p].title = Title(shows[p].name)

\* Show p's name equals the title of an earlier sheet, ignoring case.
ClashesEarlier(p) ==
    \E q \in 1..(p - 1) :
        /\ wb[q].title.count = 0
        /\ NameLower(wb[q].title.text) = NameLower(shows[p].name)

\* C2 (amended): after the export completes the workbook, and the saved
\* file, hold exactly one sheet per show, in the order of the mapping, and
\* no other sheet; sheet p is named the name of show p, followed by a
\* number exactly when that name equals an earlier sheet's title ignoring
\* case; no two sheets have the same title.
C2_SheetPerShow ==
    pc = "done" =>
        /\ Len(wb) = Len(shows)
        /\ \A p \in 1..Len(wb) :
              /\ wb[p].title.text = shows[p].name
              /\ wb[p].title.count > 0 <=> ClashesEarlier(p)
        /\ \A p, q \in 1..Len(wb) : p # q => wb[p].title # wb[q].title
        /\ Len(file.sheets) = Len(wb)
        /\ \A p \in 1..Len(wb) : file.sheets[p].title = wb[p].title

\* A finished export of two shows whose names differ only in case.
C2_Witness ==
    /\ pc = "done"
    /\ Len(wb) = 2
    /\ wb[1].title = Title(shows[1].name)
    /\ wb[2].title = [text |-> shows[2].name, count |-> 1]

\* C8: every sheet title written is valid for the format (no invalid
\* character, at most 31 characters) and unique ignoring case; a show name
\* that breaks a restriction is made valid, neither used verbatim nor a
\* reason to abort the export.
C8_ValidTitles ==
    /\ \A p \in ShowSheets :
          /\ ~HasInvalidChar(wb[p].title.text)
          /\ TitleLen(wb[p].title) <= 31
    /\ \A p, q \in ShowSheets :
          (p # q /\ wb[p].title.count = wb[q].title.count)
             => NameLower(wb[p].title.text) # NameLower(wb[q].title.text)
    /\ ~(pc = "error" /\ Len(wb) < idx)

\* C6: a failed save is not caught: the run ends in the error state, from
\* which nothing more happens (no retry, no message).  The confirmation
\* is printed exactly once, and only after a save that wrote the file.
C6_SaveFailure ==
    /\ [](pc = "done" => out = << Confirmation >>)
    /\ [](pc # "done" => out = << >>)
    /\ [][pc # "error"]_vars
    /\ [][(pc = "save" /\ pc' # "print") => (pc' = "error" /\ out' = out)]_vars
    /\ [][pc' = "print" =>
            /\ pc = "save"
            /\ wb # << >>
            /\ file'.state = "workbook"
            /\ Len(file'.sheets) = Len(wb)]_vars
    /\ [][(out' # out /\ run' = run) => (pc = "print" /\ pc' = "done")]_vars

\* A run whose save failed after the archive was opened: no message.
C6_Witness ==
    /\ pc = "error"
    /\ idx = Len(shows)
    /\ Len(wb) >= 1
    /\ file = CorruptFile
    /\ out = << >>

\* C7: a save replaces whatever is at the path: the file then holds the
\* workbook's sheets and nothing else.  The save of a second run on the
\* same dataset leaves the file exactly as the first run wrote it.
C7_IdempotentOverwrite ==
    [][(pc = "save" /\ pc' = "print") =>
          /\ Len(file'.sheets) = Len(wb)
          /\ \A p \in 1..Len(wb) : file'.sheets[p].title = wb[p].title
          /\ run = 2 => file' = file]_vars

\* The second run has completed and the file holds two sheets.
C7_Witness ==
    /\ run = 2
    /\ pc = "done"
    /\ file.state = "workbook"
    /\ Len(file.sheets) = 2

\* How far a run has come.
Rank(p) ==
    CASE p = "new" -> 0
      [] p = "remove" -> 1
      [] p \in {"create", "ep_label", "ep_table", "blank",
                "cast_label", "cast_table"} -> 2
      [] p = "save" -> 3
      [] p = "print" -> 4
      [] p \in {"done", "error"} -> 5

\* C10: the export is a single pass that reaches an end.  When the save is
\* reached every show has been taken once and its sheet is fully written;
\* within a run the script never goes back, the file changes only in the
\* save step, the message is printed only after the save, and neither the
\* workbook nor the file changes after the save.  Every run ends completed
\* or in the error state.
C10_SinglePass ==
    /\ [](pc \in {"save", "print", "done"} =>
            /\ idx = Len(shows)
            /\ Len(wb) = Len(shows)
            /\ \A p \in 1..Len(wb) :
                  /\ wb[p].title.text = shows[p].name
                  /\ Len(wb[p].rows) = NumEpisodes(p) + NumCast(p) + 5)
    /\ [](idx <= Len(shows) /\ (pc # "new" => Len(wb) <= idx + 1))
    /\ [][run' = run => Rank(pc') >= Rank(pc)]_vars
    /\ [][file' # file => (pc = "save" /\ pc' \in {"print", "error"})]_vars
    /\ [][(pc = "save" /\ run' = run) => Rank(pc') > Rank(pc)]_vars
    /\ [][(out' # out /\ run' = run) => pc = "print"]_vars
    /\ [][(Rank(pc) >= 3 /\ run' = run) => wb' = wb]_vars
    /\ [][(Rank(pc) >= 4 /\ run' = run) => file' = file]_vars
    /\ (pc \notin {"done", "error"}) ~> (pc \in {"done", "error"})

\* A completed second run of a two-show export.
C10_Witness ==
    /\ pc = "done"
    /\ run = 2
    /\ Len(shows) = 2
    /\ Len(wb) = 2
    /\ out = << Confirmation >>

====
